---- MODULE Spec2Model ----
\* The List<T> sum type of gerardpaapu/sum-types in its encodings:
\*   tagged union       TU_   src/unnamed/part_001
\*   Scott, positional  SP_   src/unnamed/part_000 lines 41-66
\*   Scott, keyed       SK_   src/unnamed/part_000 lines 13-39
\*   object algebra     OA_   src/src/object-algebra.ts
\*
\* JavaScript objects and closures live in a heap: a sequence of cells, an
\* address being an index.  A closure is a record naming the lambda of the
\* source that created it (field fn) together with the variables that lambda
\* captured.  Every library function takes the heap and returns
\*   [h |-> the heap after the call, v |-> the value returned,
\*    log |-> the calls it made to functions supplied by the caller, in the
\*            order JavaScript evaluates them]
EXTENDS Integers, Sequences, FiniteSets, TLC

\* ------------------------------------------------------------------ bounds
\* Registers (list references) a client program holds.
MaxRegs == 3
\* Elements of a list written as a function literal, or fed to a test.
MaxLen == 2
\* toArray calls in a row on the newest list that the client counts.
MaxForce == 2

\* Elements the client puts into lists.
Elem == {2, 3}

\* The functions the client maps with, named; a function is a sequence of
\* names, applied left to right, so that x => g(f(x)) is <<f, g>>.
Prim == {"sq", "inc"}
F == {<<p>> : p \in Prim}

\* ------------------------------------------------------------------ helpers
R(h, v, log) == [h |-> h, v |-> v, log |-> log]

\* A new object: the heap grows by one cell, whose address is returned.
Alloc(h, obj) == R(Append(h, obj), Len(h) + 1, <<>>)

ApplyPrim(p, x) == IF p = "sq" THEN x * x ELSE x + 1

RECURSIVE ApplyFrom(_, _, _)
ApplyFrom(f, i, x) ==
    IF i > Len(f) THEN x ELSE ApplyFrom(f, i + 1, ApplyPrim(f[i], x))

\* f(x) for a client function f.
Apply(f, x) == ApplyFrom(f, 1, x)

\* The log entry of one call f(x).
App(f, x) == [ev |-> "app", f |-> f, x |-> x]

\* ------------------------------------------------------------------ tagged union
TU_empty(h) == Alloc(h, [type |-> "Empty"])

TU_cons(h, head, tail) == Alloc(h, [type |-> "Cons", head |-> head, tail |-> tail])

\* Faulty variant: only the head is mapped, cons(f(list.head), list.tail).
TU_map_shallow(h, list, f) ==
    IF h[list].type = "Empty"
    THEN TU_empty(h)
    ELSE LET c == TU_cons(h, Apply(f, h[list].head), h[list].tail)
         IN  R(c.h, c.v, <<App(f, h[list].head)>>)

\* Faulty variant: the list is mapped in place, list.head = f(list.head), and
\* returned.
RECURSIVE TU_map_inplace(_, _, _)
TU_map_inplace(h, list, f) ==
    IF h[list].type = "Empty"
    THEN R(h, list, <<>>)
    ELSE LET r == TU_map_inplace(h, h[list].tail, f)
         IN  R([r.h EXCEPT ![list].head = Apply(f, @)], list,
               <<App(f, h[list].head)>> \o r.log)

RECURSIVE TU_map(_, _, _)
TU_map(h, list, f) ==
    IF h[list].type = "Empty"
    THEN TU_empty(h)
    ELSE LET y == Apply(f, h[list].head)
             r == TU_map(h, h[list].tail, f)
             c == TU_cons(r.h, y, r.v)
         IN  R(c.h, c.v, <<App(f, h[list].head)>> \o r.log)

RECURSIVE TU_toArray(_, _)
TU_toArray(h, list) ==
    IF h[list].type = "Empty"
    THEN R(h, <<>>, <<>>)
    ELSE LET r == TU_toArray(h, h[list].tail)
         IN  R(r.h, <<h[list].head>> \o r.v, r.log)

\* ------------------------------------------------------------------ Scott encoding, positional
\* The log entry of one call of the caseOf of the list at address a.
CaseOfEv(a) == [ev |-> "caseOf", on |-> a]

\* The handlers toArray passes to caseOf, lines 62 and 63 (35 and 36, keyed).
ToArrayOnEmpty == [fn |-> "toArray.onEmpty"]
ToArrayOnCons == [fn |-> "toArray.onCons"]

\* Handlers of a client that looks at the first element and no further:
\*   () => []   and   (head, tail) => [head]
PeekOnEmpty == [fn |-> "peek.onEmpty"]
PeekOnCons == [fn |-> "peek.onCons"]

SP_empty(h) == Alloc(h, [fn |-> "empty"])

SP_cons(h, head, tail) == Alloc(h, [fn |-> "cons", head |-> head, tail |-> tail])

RECURSIVE SP_caseOf(_, _, _, _)
RECURSIVE SP_call(_, _, _)
RECURSIVE SP_toArray(_, _)

\* Faulty variant: map takes the list apart when it is called,
\*   list.caseOf(() => empty(), (head, tail) => cons(f(head), map(tail, f)))
RECURSIVE SP_map_eager(_, _, _)
SP_map_eager(h, list, f) ==
    IF h[list].fn = "cons"
    THEN LET r == SP_map_eager(h, h[list].tail, f)
             c == SP_cons(r.h, Apply(f, h[list].head), r.v)
         IN  R(c.h, c.v, <<CaseOfEv(list), App(f, h[list].head)>> \o r.log)
    ELSE LET e == SP_empty(h)
         IN  R(e.h, e.v, <<CaseOfEv(list)>>)

\* Faulty variant: a map of a mapped list is fused with it, the two functions
\* composed the wrong way round.
SP_map_fusesWrong(h, list, f) ==
    IF h[list].fn = "map"
    THEN Alloc(h, [fn |-> "map", list |-> h[list].list, f |-> f \o h[list].f])
    ELSE Alloc(h, [fn |-> "map", list |-> list, f |-> f])

\* map returns an object whose caseOf closes over list and f: nothing is called.
SP_map(h, list, f) == Alloc(h, [fn |-> "map", list |-> list, f |-> f])

\* list.caseOf(onEmpty, onCons)
SP_caseOf(h, list, onEmpty, onCons) ==
    LET o == h[list]
        r == CASE o.fn = "empty" -> SP_call(h, onEmpty, <<>>)
               [] o.fn = "cons" -> SP_call(h, onCons, <<o.head, o.tail>>)
               [] o.fn = "map" ->
                    SP_caseOf(h, o.list,
                              [fn |-> "map.onEmpty", onEmpty |-> onEmpty],
                              [fn |-> "map.onCons", onCons |-> onCons, f |-> o.f])
    IN  R(r.h, r.v, <<CaseOfEv(list)>> \o r.log)

\* k(args) for a handler k: one of the lambdas passed to caseOf.
SP_call(h, k, args) ==
    CASE k.fn = "toArray.onEmpty" -> R(h, <<>>, <<>>)
      [] k.fn = "toArray.onCons" ->
           LET r == SP_toArray(h, args[2])
           IN  R(r.h, <<args[1]>> \o r.v, r.log)
      [] k.fn = "map.onEmpty" -> SP_call(h, k.onEmpty, <<>>)
      [] k.fn = "map.onCons" ->
           LET y == Apply(k.f, args[1])
               m == SP_map(h, args[2], k.f)
               r == SP_call(m.h, k.onCons, <<y, m.v>>)
           IN  R(r.h, r.v, <<App(k.f, args[1])>> \o r.log)
      [] k.fn = "peek.onEmpty" -> R(h, <<>>, <<>>)
      [] k.fn = "peek.onCons" -> R(h, <<args[1]>>, <<>>)

\* Faulty variant: toArray first asks the list whether it is empty, with a
\* caseOf call of its own, and then converts it.
SP_toArray_probes(h, list) ==
    LET p == SP_caseOf(h, list, PeekOnEmpty, PeekOnCons)
        r == SP_caseOf(p.h, list, ToArrayOnEmpty, ToArrayOnCons)
    IN  R(r.h, r.v, p.log \o r.log)

SP_toArray(h, list) == SP_caseOf(h, list, ToArrayOnEmpty, ToArrayOnCons)

\* ------------------------------------------------------------------ Scott encoding, keyed
SK_empty(h) == Alloc(h, [fn |-> "empty"])

SK_cons(h, head, tail) == Alloc(h, [fn |-> "cons", head |-> head, tail |-> tail])

\* Faulty variant: the Cons handler passes the head on as it is,
\*   Cons(head, map(tail, f))
SK_map_forgetsF(h, list, f) == Alloc(h, [fn |-> "map", list |-> list, f |-> <<>>])

SK_map(h, list, f) == Alloc(h, [fn |-> "map", list |-> list, f |-> f])

RECURSIVE SK_caseOf(_, _, _)
RECURSIVE SK_call(_, _, _)
RECURSIVE SK_toArray(_, _)

\* list.caseOf({ Empty, Cons })
SK_caseOf(h, list, cases) ==
    LET o == h[list]
        r == CASE o.fn = "empty" -> SK_call(h, cases.Empty, <<>>)
               [] o.fn = "cons" -> SK_call(h, cases.Cons, <<o.head, o.tail>>)
               [] o.fn = "map" ->
                    SK_caseOf(h, o.list,
                              [Empty |-> [fn |-> "map.Empty", Empty |-> cases.Empty],
                               Cons |-> [fn |-> "map.Cons", Cons |-> cases.Cons, f |-> o.f]])
    IN  R(r.h, r.v, <<CaseOfEv(list)>> \o r.log)

SK_call(h, k, args) ==
    CASE k.fn = "toArray.onEmpty" -> R(h, <<>>, <<>>)
      [] k.fn = "toArray.onCons" ->
           LET r == SK_toArray(h, args[2])
           IN  R(r.h, <<args[1]>> \o r.v, r.log)
      [] k.fn = "map.Empty" -> SK_call(h, k.Empty, <<>>)
      [] k.fn = "map.Cons" ->
           LET y == Apply(k.f, args[1])
               m == SK_map(h, args[2], k.f)
               r == SK_call(m.h, k.Cons, <<y, m.v>>)
           IN  R(r.h, r.v, <<App(k.f, args[1])>> \o r.log)
      [] k.fn = "peek.onEmpty" -> R(h, <<>>, <<>>)
      [] k.fn = "peek.onCons" -> R(h, <<args[1]>>, <<>>)

SK_toArray(h, list) ==
    SK_caseOf(h, list, [Empty |-> ToArrayOnEmpty, Cons |-> ToArrayOnCons])

\* ------------------------------------------------------------------ object algebra
\* The algebras (interpreters) a list is applied to: map's (lines 18-21),
\* toArray's (lines 24-27) and a client's, which counts the elements:
\*   { empty: () => 0, cons: (head, tail) => 1 + tail }
MapAlg(f) == [fn |-> "map", f |-> f]
ToArrayAlg == [fn |-> "toArray"]
CountAlg == [fn |-> "count"]

OA_empty(h) == Alloc(h, [fn |-> "empty"])

OA_cons(h, first, rest) == Alloc(h, [fn |-> "cons", first |-> first, rest |-> rest])

\* A list written as a function literal over the algebra,
\*   (L) => L.cons(x1, L.cons(x2, ... L.empty()))
OA_lambda(h, xs) == Alloc(h, [fn |-> "lambda", elems |-> xs])

\* L.empty()
OA_algEmpty(h, L) ==
    LET r == CASE L.fn = "map" -> OA_empty(h)
               [] L.fn = "toArray" -> R(h, <<>>, <<>>)
               [] L.fn = "count" -> R(h, 0, <<>>)
    IN  R(r.h, r.v, <<[ev |-> "L.empty", ret |-> r.v]>>)

\* Faulty variant: toArray's algebra puts the head behind the tail,
\*   cons: (head, tail) => [...tail, head]
OA_algCons_appends(h, L, head, tail) ==
    LET r == CASE L.fn = "map" ->
                    LET c == OA_cons(h, Apply(L.f, head), tail)
                    IN  R(c.h, c.v, <<App(L.f, head)>>)
               [] L.fn = "toArray" -> R(h, tail \o <<head>>, <<>>)
               [] L.fn = "count" -> R(h, 1 + tail, <<>>)
    IN  R(r.h, r.v,
          <<[ev |-> "L.cons", head |-> head, tail |-> tail, ret |-> r.v]>> \o r.log)

\* L.cons(head, tail)
OA_algCons(h, L, head, tail) ==
    LET r == CASE L.fn = "map" ->
                    LET c == OA_cons(h, Apply(L.f, head), tail)
                    IN  R(c.h, c.v, <<App(L.f, head)>>)
               [] L.fn = "toArray" -> R(h, <<head>> \o tail, <<>>)
               [] L.fn = "count" -> R(h, 1 + tail, <<>>)
    IN  R(r.h, r.v,
          <<[ev |-> "L.cons", head |-> head, tail |-> tail, ret |-> r.v]>> \o r.log)

\* The body of a function literal from its i-th element on: the arguments of
\* L.cons are evaluated first, so the innermost L.empty() is called first.
RECURSIVE OA_lambdaFrom(_, _, _, _)
OA_lambdaFrom(h, xs, i, L) ==
    IF i > Len(xs)
    THEN OA_algEmpty(h, L)
    ELSE LET r == OA_lambdaFrom(h, xs, i + 1, L)
             c == OA_algCons(r.h, L, xs[i], r.v)
         IN  R(c.h, c.v, r.log \o c.log)

\* Faulty variant: cons does not fold the rest, (L) => L.cons(first, L.empty())
OA_apply_forgetsRest(h, list, L) ==
    LET o == h[list]
    IN  CASE o.fn = "empty" -> OA_algEmpty(h, L)
          [] o.fn = "cons" ->
               LET r == OA_algEmpty(h, L)
                   c == OA_algCons(r.h, L, o.first, r.v)
               IN  R(c.h, c.v, r.log \o c.log)
          [] o.fn = "lambda" -> OA_lambdaFrom(h, o.elems, 1, L)

\* list(L)
RECURSIVE OA_apply(_, _, _)
OA_apply(h, list, L) ==
    LET o == h[list]
    IN  CASE o.fn = "empty" -> OA_algEmpty(h, L)
          [] o.fn = "cons" ->
               LET r == OA_apply(h, o.rest, L)
                   c == OA_algCons(r.h, L, o.first, r.v)
               IN  R(c.h, c.v, r.log \o c.log)
          [] o.fn = "lambda" -> OA_lambdaFrom(h, o.elems, 1, L)

\* Faulty variant: map's algebra passes the head on as it is,
\*   cons: (head, tail) => cons(head, tail)
OA_map_forgetsF(h, list, f) == OA_apply(h, list, MapAlg(<<>>))

OA_map(h, list, f) == OA_apply(h, list, MapAlg(f))

OA_toArray(h, list) == OA_apply(h, list, ToArrayAlg)

\* ------------------------------------------------------------------ a client program
\* Each module exports List = { empty, cons, map, toArray }; a program imports
\* one of them.
Impls == {"tagged-union", "scott-positional", "scott-keyed", "object-algebra"}
Scott == {"scott-positional", "scott-keyed"}

List_empty(m, h) ==
    CASE m = "tagged-union" -> TU_empty(h)
      [] m = "scott-positional" -> SP_empty(h)
      [] m = "scott-keyed" -> SK_empty(h)
      [] m = "object-algebra" -> OA_empty(h)

List_cons(m, h, head, tail) ==
    CASE m = "tagged-union" -> TU_cons(h, head, tail)
      [] m = "scott-positional" -> SP_cons(h, head, tail)
      [] m = "scott-keyed" -> SK_cons(h, head, tail)
      [] m = "object-algebra" -> OA_cons(h, head, tail)

List_map(m, h, list, f) ==
    CASE m = "tagged-union" -> TU_map(h, list, f)
      [] m = "scott-positional" -> SP_map(h, list, f)
      [] m = "scott-keyed" -> SK_map(h, list, f)
      [] m = "object-algebra" -> OA_map(h, list, f)

List_toArray(m, h, list) ==
    CASE m = "tagged-union" -> TU_toArray(h, list)
      [] m = "scott-positional" -> SP_toArray(h, list)
      [] m = "scott-keyed" -> SK_toArray(h, list)
      [] m = "object-algebra" -> OA_toArray(h, list)

\* list.caseOf with the client's handlers (Scott encodings only).
List_peek(m, h, list) ==
    CASE m = "scott-positional" -> SP_caseOf(h, list, PeekOnEmpty, PeekOnCons)
      [] m = "scott-keyed" ->
           SK_caseOf(h, list, [Empty |-> PeekOnEmpty, Cons |-> PeekOnCons])

\* numbers = List.cons(x1, List.cons(x2, ... List.empty())) from the i-th
\* element on: the innermost call is made first.
RECURSIVE Numbers(_, _, _, _)
Numbers(m, h, xs, i) ==
    IF i > Len(xs)
    THEN List_empty(m, h)
    ELSE LET r == Numbers(m, h, xs, i + 1)
         IN  List_cons(m, r.h, xs[i], r.v)

\* The ways a program writes its first list down: with the constructors, or
\* (object algebra) as a function literal.
Styles(m) == IF m = "object-algebra" THEN {"constructors", "lambda"} ELSE {"constructors"}

Written(m, style, xs) ==
    IF style = "lambda" THEN OA_lambda(<<>>, xs) ELSE Numbers(m, <<>>, xs, 1)

VARIABLES
    impl,    \* the module the program imported
    heap,    \* the objects and closures alive
    regs,    \* the list references the program holds: addresses, oldest first
    last,    \* the call the program made last
    calls,   \* what that call called, in order (the log of the library function)
    streak,  \* the toArray calls made in a row on the newest list, and the
             \* applications of mapped functions they made altogether
    inputs,  \* what the program (or the test suite) was given to work on
    results  \* the test suite's results, by test

vars == <<impl, heap, regs, last, calls, streak, inputs, results>>

\* All sequences over S of length at most n.
SeqsUpTo(S, n) == UNION {[1..k -> S] : k \in 0..n}

\* The applications of client functions in a log.
Apps(log) == SelectSeq(log, LAMBDA e : e.ev = "app")

Call(op, arg, x, f) == [op |-> op, arg |-> arg, x |-> x, f |-> f]

NoStreak == [n |-> 0, apps |-> 0]

\* The program has written its first list, numbers.
Init ==
    /\ impl \in Impls
    /\ \E xs \in SeqsUpTo(Elem, MaxLen), style \in Styles(impl) :
         LET r == Written(impl, style, xs)
         IN  /\ heap = r.h
             /\ regs = <<r.v>>
             /\ last = Call(style, 0, 0, <<>>) @@ [res |-> 1, val |-> <<>>]
             /\ inputs = [xs |-> xs]
    /\ calls = <<>>
    /\ streak = NoStreak
    /\ results = <<>>

\* A call that returns a list: the program keeps the reference.
Returned(r, call) ==
    /\ heap' = r.h
    /\ regs' = Append(regs, r.v)
    /\ last' = call @@ [res |-> Len(regs) + 1, val |-> <<>>]
    /\ calls' = r.log
    /\ streak' = NoStreak
    /\ UNCHANGED <<impl, inputs, results>>

\* A call that returns a native value: what the call allocated is unreachable
\* once it has returned, and is dropped.
Answered(r, call) ==
    /\ heap' = SubSeq(r.h, 1, Len(heap))
    /\ regs' = regs
    /\ last' = call @@ [res |-> 0, val |-> r.v]
    /\ calls' = r.log
    /\ UNCHANGED <<impl, inputs, results>>

\* The newest list.
Newest == Len(regs)

Empty ==
    /\ Len(regs) < MaxRegs
    /\ Returned(List_empty(impl, heap), Call("empty", 0, 0, <<>>))

Cons(x, i) ==
    /\ Len(regs) < MaxRegs
    /\ Returned(List_cons(impl, heap, x, regs[i]), Call("cons", i, x, <<>>))

Map(i, f) ==
    /\ Len(regs) < MaxRegs
    /\ Returned(List_map(impl, heap, regs[i], f), Call("map", i, 0, f))

ToArray ==
    /\ streak.n < MaxForce
    /\ LET r == List_toArray(impl, heap, regs[Newest])
       IN  /\ Answered(r, Call("toArray", Newest, 0, <<>>))
           /\ streak' = [n |-> streak.n + 1, apps |-> streak.apps + Len(Apps(r.log))]

Peek ==
    /\ impl \in Scott
    /\ Answered(List_peek(impl, heap, regs[Newest]), Call("peek", Newest, 0, <<>>))
    /\ streak' = NoStreak

Count ==
    /\ impl = "object-algebra"
    /\ Answered(OA_apply(heap, regs[Newest], CountAlg), Call("count", Newest, 0, <<>>))
    /\ streak' = NoStreak

Next ==
    \/ Empty
    \/ \E x \in Elem, i \in DOMAIN regs : Cons(x, i)
    \/ \E i \in DOMAIN regs, f \in F : Map(i, f)
    \/ ToArray
    \/ Peek
    \/ Count

Spec == Init /\ [][Next]_vars

\* ------------------------------------------------------------------ the test suite
\* Every test writes numbers, maps it and compares List.toArray(squares) with
\* the expected array.  Here a test runs on the suite's inputs xs, f and g
\* instead of [3, 2] and n => n * n, and reports, besides toArray(squares),
\* toArray(numbers), toArray(map(squares, g)) and
\* toArray(map(numbers, x => g(f(x)))).
Tests == {"tagged-union", "scott-positional", "scott-keyed", "object-algebra",
          "object-algebra lambda", "object-algebra mixed"}

ModuleOf(t) ==
    IF t \in {"object-algebra lambda", "object-algebra mixed"} THEN "object-algebra" ELSE t

\* numbers, as the test t writes it: with the constructors, as a function
\* literal, or as cons applied to a function literal.
TestNumbers(t, xs) ==
    CASE t = "object-algebra lambda" -> OA_lambda(<<>>, xs)
      [] t = "object-algebra mixed" /\ xs # <<>> ->
           LET r == OA_lambda(<<>>, Tail(xs))
           IN  OA_cons(r.h, Head(xs), r.v)
      [] OTHER -> Numbers(ModuleOf(t), <<>>, xs, 1)

TestBody(t, xs, f, g) ==
    LET m == ModuleOf(t)
        numbers == TestNumbers(t, xs)
        plain == List_toArray(m, numbers.h, numbers.v)
        squares == List_map(m, numbers.h, numbers.v, f)
        actual == List_toArray(m, squares.h, squares.v)
        again == List_map(m, squares.h, squares.v, g)
        chained == List_toArray(m, again.h, again.v)
        both == List_map(m, squares.h, numbers.v, f \o g)
        fused == List_toArray(m, both.h, both.v)
    IN  [plain |-> plain.v, actual |-> actual.v, chained |-> chained.v, fused |-> fused.v]

InitX ==
    /\ \E xs \in SeqsUpTo(Elem, MaxLen), f \in F, g \in F :
         inputs = [xs |-> xs, f |-> f, g |-> g]
    /\ results = <<>>
    /\ impl = "all"
    /\ heap = <<>>
    /\ regs = <<>>
    /\ last = Call("suite", 0, 0, <<>>) @@ [res |-> 0, val |-> <<>>]
    /\ calls = <<>>
    /\ streak = NoStreak

Test(t) ==
    /\ t \notin DOMAIN results
    /\ results' = [u \in DOMAIN results \cup {t} |->
                     IF u = t THEN TestBody(t, inputs.xs, inputs.f, inputs.g)
                     ELSE results[u]]
    /\ UNCHANGED <<impl, heap, regs, last, calls, streak, inputs>>

TestTaggedUnion == Test("tagged-union")
TestScottPositional == Test("scott-positional")
TestScottKeyed == Test("scott-keyed")
TestObjectAlgebra == Test("object-algebra")
TestObjectAlgebraLambda == Test("object-algebra lambda")
TestObjectAlgebraMixed == Test("object-algebra mixed")

NextX ==
    \/ TestTaggedUnion
    \/ TestScottPositional
    \/ TestScottKeyed
    \/ TestObjectAlgebra
    \/ TestObjectAlgebraLambda
    \/ TestObjectAlgebraMixed

SpecX == InitX /\ [][NextX]_vars

\* ------------------------------------------------------------------ what the claims are stated with
\* xs with f applied to each element: toArray(list).map(f).
MapSeq(f, xs) == [i \in 1..Len(xs) |-> Apply(f, xs[i])]

\* The list a test suite or a client compares with, under the imported module.
ArrayOf(a) == List_toArray(impl, heap, a).v

\* The elements of a Scott-encoded list, head first, each with the
\* applications of mapped functions that yield it, innermost map first.
RECURSIVE ElemLogs(_, _)
ElemLogs(h, a) ==
    CASE h[a].fn = "empty" -> <<>>
      [] h[a].fn = "cons" -> <<[val |-> h[a].head, log |-> <<>>]>> \o ElemLogs(h, h[a].tail)
      [] h[a].fn = "map" ->
           LET es == ElemLogs(h, h[a].list)
           IN  [i \in 1..Len(es) |->
                  [val |-> Apply(h[a].f, es[i].val),
                   log |-> Append(es[i].log, App(h[a].f, es[i].val))]]

RECURSIVE FlatFrom(_, _)
FlatFrom(es, i) == IF i > Len(es) THEN <<>> ELSE es[i].log \o FlatFrom(es, i + 1)

\* Each element's applications, element after element from the head.
HeadToTail(h, a) == FlatFrom(ElemLogs(h, a), 1)

\* The elements of an object-algebra list, read off the closures.
RECURSIVE OA_elems(_, _)
OA_elems(h, a) ==
    CASE h[a].fn = "empty" -> <<>>
      [] h[a].fn = "cons" -> <<h[a].first>> \o OA_elems(h, h[a].rest)
      [] h[a].fn = "lambda" -> h[a].elems

\* The two methods of the counting and of the array algebra, as functions.
AlgE(L) == IF L = CountAlg THEN 0 ELSE <<>>
AlgC(L, hd, tl) == IF L = CountAlg THEN 1 + tl ELSE <<hd>> \o tl

\* L.cons(x_i, L.cons(x_i+1, ... L.cons(x_n, L.empty())))
RECURSIVE FoldRight(_, _, _)
FoldRight(L, xs, i) ==
    IF i > Len(xs) THEN AlgE(L) ELSE AlgC(L, xs[i], FoldRight(L, xs, i + 1))

\* The calls of L's methods that the right fold of xs makes, in order.
FoldCalls(L, xs) ==
    [k \in 1..(Len(xs) + 1) |->
       IF k = 1
       THEN [ev |-> "L.empty", ret |-> AlgE(L)]
       ELSE LET i == Len(xs) - k + 2
            IN  [ev |-> "L.cons", head |-> xs[i],
                 tail |-> FoldRight(L, xs, i + 1), ret |-> FoldRight(L, xs, i)]]

TaggedOrScott == {"tagged-union"} \cup Scott

\* ------------------------------------------------------------------ claims, of Spec
\* C1: in the tagged-union and both Scott encodings, toArray(map(list, f)) is
\* toArray(list) with f applied to each element, same length, same order.
C1_MapCommutesWithToArray ==
    (impl \in TaggedOrScott /\ last.op = "map") =>
        ArrayOf(regs[last.res]) = MapSeq(last.f, ArrayOf(regs[last.arg]))

\* cons(3, cons(2, empty())) mapped with n * n gives [9, 4].
C1_Witness ==
    /\ impl = "scott-keyed"
    /\ last.op = "map"
    /\ ArrayOf(regs[last.arg]) = <<3, 2>>
    /\ ArrayOf(regs[last.res]) = <<9, 4>>

\* C2: in every encoding toArray(empty()) is the empty sequence,
\* toArray(cons(x, xs)) is x followed by toArray(xs), and toArray of
\* cons(x1, cons(x2, ... empty())) is exactly x1, ..., xn.
C2_ToArrayUnfolds ==
    /\ last.op = "empty" => ArrayOf(regs[last.res]) = <<>>
    /\ last.op = "cons" =>
         ArrayOf(regs[last.res]) = <<last.x>> \o ArrayOf(regs[last.arg])
    /\ last.op = "constructors" => ArrayOf(regs[1]) = inputs.xs

C2_Witness ==
    /\ impl = "object-algebra"
    /\ last.op = "cons"
    /\ ArrayOf(regs[last.res]) = <<2, 3, 2>>

\* The calls of the algebra's methods in a log.
MethodCalls(log) == SelectSeq(log, LAMBDA e : e.ev # "app")

\* C5: an object-algebra list applied to an algebra L (map's, toArray's, a
\* client's that counts) is the right fold of its elements with L: L.empty()
\* is called first, then L.cons for each element from the last to the first,
\* each time with what the call before returned, the tail folded by L; the
\* last call's value is returned; and this whichever algebras the list was
\* applied to before.
C5_AppliedListIsRightFold ==
    (impl = "object-algebra" /\ last.op \in {"count", "toArray", "map"}) =>
        LET xs == OA_elems(heap, regs[last.arg])
            n == Len(xs)
            ms == MethodCalls(calls)
            returned == IF last.op = "map" THEN regs[last.res] ELSE last.val
        IN  /\ Len(ms) = n + 1
            /\ ms[1].ev = "L.empty"
            /\ \A k \in 1..n :
                 /\ ms[k + 1].ev = "L.cons"
                 /\ ms[k + 1].head = xs[n - k + 1]
                 /\ ms[k + 1].tail = ms[k].ret
            /\ returned = ms[n + 1].ret
            /\ last.op # "map" =>
                 LET L == IF last.op = "count" THEN CountAlg ELSE ToArrayAlg
                 IN  /\ last.val = FoldRight(L, xs, 1)
                     /\ calls = FoldCalls(L, xs)

\* A list of three elements was counted.
C5_Witness ==
    /\ impl = "object-algebra"
    /\ last.op = "count"
    /\ last.val = 3
    /\ calls[4].tail = 2

\* C6: in both Scott encodings map calls nothing (neither list.caseOf nor f);
\* every application of f comes after a caseOf call on a mapped list made
\* with that f; and one caseOf call on a mapped list applies mapped functions
\* to the head element only.
C6_ScottMapIsLazy ==
    impl \in Scott =>
        /\ last.op = "map" => calls = <<>>
        /\ last.op = "peek" =>
             LET es == ElemLogs(heap, regs[last.arg])
             IN  Apps(calls) = IF es = <<>> THEN <<>> ELSE es[1].log
        /\ last.op \in {"peek", "toArray"} =>
             LET r == IF last.op = "peek"
                      THEN List_peek(impl, heap, regs[last.arg])
                      ELSE List_toArray(impl, heap, regs[last.arg])
             IN  /\ r.log = calls
                 /\ \A j \in DOMAIN calls :
                      calls[j].ev = "app" =>
                        \E k \in 1..(j - 1) :
                          /\ calls[k].ev = "caseOf"
                          /\ r.h[calls[k].on].fn = "map"
                          /\ r.h[calls[k].on].f = calls[j].f

\* One caseOf call on a mapped list of two elements applied f once.
C6_Witness ==
    /\ impl \in Scott
    /\ last.op = "peek"
    /\ heap[regs[last.arg]].fn = "map"
    /\ Len(ElemLogs(heap, regs[last.arg])) = 2
    /\ Len(Apps(calls)) = 1

\* C7: in the object-algebra encoding map(list, f) folds nothing and applies
\* f to nothing.
C7_ObjectAlgebraMapIsLazy ==
    (impl = "object-algebra" /\ last.op = "map") => calls = <<>>

\* C8: no call changes a list the program holds: every reference stays, what
\* toArray returns for it stays, and map returns an object that did not exist.
C8_ListsNeverChange ==
    [][/\ \A i \in DOMAIN regs :
            /\ regs'[i] = regs[i]
            /\ List_toArray(impl, heap', regs[i]).v = List_toArray(impl, heap, regs[i]).v
       /\ last'.op = "map" => regs'[last'.res] \notin DOMAIN heap]_vars

\* A mapped list of a mapped list was materialized twice.
C8_Witness ==
    /\ impl = "tagged-union"
    /\ Len(regs) = 3
    /\ last.op = "toArray"
    /\ streak.n = 2
    /\ last.val = <<10, 5>>

\* C10: in the Scott encodings each toArray call applies the mapped functions
\* once per element, head to tail, whatever was forced before, so that k calls
\* apply them k times as often; in the tagged-union encoding map applies f
\* once per element, head to tail, and toArray applies nothing.
C10_NoMemoization ==
    /\ (impl \in Scott /\ last.op = "toArray") =>
         /\ Apps(calls) = HeadToTail(heap, regs[last.arg])
         /\ streak.apps = streak.n * Len(HeadToTail(heap, regs[last.arg]))
    /\ (impl = "tagged-union" /\ last.op = "toArray") =>
         calls = <<>> /\ streak.apps = 0
    /\ (impl = "tagged-union" /\ last.op = "map") =>
         LET xs == ArrayOf(regs[last.arg])
         IN  calls = [i \in 1..Len(xs) |-> App(last.f, xs[i])]

\* toArray, called twice on a mapped list of two elements, applied f 4 times.
C10_Witness ==
    /\ impl = "scott-positional"
    /\ last.op = "toArray"
    /\ heap[regs[last.arg]].fn = "map"
    /\ Len(last.val) = 2
    /\ streak.n = 2
    /\ streak.apps = 4

\* ------------------------------------------------------------------ claims, of SpecX
ModuleTests == {"tagged-union", "scott-positional", "scott-keyed", "object-algebra"}
ObjectAlgebraTests == {"object-algebra", "object-algebra lambda", "object-algebra mixed"}

\* C3: for the same sequence and the same f, the four modules return the same
\* array from toArray(list) and from toArray(map(list, f)).
C3_EncodingsAgree ==
    \A t \in ModuleTests \cap DOMAIN results, u \in ModuleTests \cap DOMAIN results :
        /\ results[t].plain = results[u].plain
        /\ results[t].actual = results[u].actual

C3_Witness ==
    /\ ModuleTests \subseteq DOMAIN results
    /\ results["scott-keyed"].plain = <<3, 2>>
    /\ results["scott-positional"].actual = <<9, 4>>

\* C4: an object-algebra list written as a function literal, with cons and
\* empty, or as cons applied to a literal gives the sequence from toArray and
\* the sequence with f applied to each element from toArray(map(list, f)).
C4_ConstructionStylesAgree ==
    \A t \in ObjectAlgebraTests \cap DOMAIN results :
        /\ results[t].plain = inputs.xs
        /\ results[t].actual = MapSeq(inputs.f, inputs.xs)

C4_Witness ==
    /\ ObjectAlgebraTests \subseteq DOMAIN results
    /\ inputs.xs = <<3, 2>>
    /\ results["object-algebra mixed"].actual = <<9, 4>>
    /\ results["object-algebra lambda"].actual = <<9, 4>>

\* C9: in every encoding toArray(map(map(list, f), g)) equals
\* toArray(map(list, x => g(f(x)))).
C9_MapComposes ==
    \A t \in DOMAIN results : results[t].chained = results[t].fused

C9_Witness ==
    /\ DOMAIN results = Tests
    /\ inputs.f # inputs.g
    /\ results["tagged-union"].chained = <<10, 5>>
    /\ results["scott-positional"].fused = <<10, 5>>

====
